---- MODULE Spec2Model ----
(***************************************************************************)
(* MLDeform: the runtime deformer node (MLDeform/_maya/deformer.py) and    *)
(* the tools that author its training data.                                *)
(*                                                                         *)
(* The model follows one MLDeformerNode instance: its three fields         *)
(* (data_location, location_changed, models), the host attributes it reads *)
(* (trainingData, matrix), the files the manifest path can name, and what  *)
(* the last evaluation did (exception, loadModels calls, slots resolved,   *)
(* slots invoked, delta buffer, output positions).                         *)
(*                                                                         *)
(* The authoring tools that produce the manifest (skinning.get_joints and  *)
(* skin_mesh, writer.write, train.train) are followed in the skin and      *)
(* outdir variables, under a specification of their own (SpecTools).       *)
(*                                                                         *)
(* Slot, vertex and array indices are 0-based as in the source; TLA+       *)
(* sequences are 1-based, so element i of a Python list is s[i + 1].       *)
(***************************************************************************)
EXTENDS Integers, Sequences, FiniteSets, TLC

VARIABLES
    data_location,      \* self.data_location: NONE or the cached manifest path
    location_changed,   \* self.location_changed: the reload flag
    models,             \* self.models: list of TFModel-or-None
    trainingData,       \* host attribute data_loc (string)
    in_mats,            \* host attribute in_mats (array of joint transforms)
    files,              \* the file system: path -> document or absent
    lastOp,             \* the handler that ran last
    raised,             \* exception the last handler let escape ("none" if it returned)
    loadCalls,          \* how many times the last handler called loadModels
    loadPrev,           \* [data_location, models] on entry to the last handler
    loadedData,         \* the document the last loadModels call parsed (None if it
                        \* did not get to line 224)
    resolved,           \* slot indices whose artifact the last loadModels resolved
    invoked,            \* slot indices whose model the last deform ran
    readElems,          \* matrix indices the last deform jumped to
    fed,                \* slot index -> the 7-row fed to session.run
    predicted,          \* slot index -> results[0] of session.run
    passed,             \* slot index -> what the arrays passed to normalize_transform
                        \* and denormalize_prediction hold after the calls
    deltas,             \* the delta buffer at the end of the dispatcher loop
    envelope,           \* envelope value the last deform read
    weights,            \* paint weights the last deform read
    outPos,             \* vertex positions after the last deform
    skin,               \* the skin cluster skin_mesh made in the scene (None before)
    outdir,             \* the training directory write() and train() work in
    freed               \* the memory that held the delta buffer of the latest
                        \* evaluation before the last handler, when it is followed

vars == <<data_location, location_changed, models, trainingData, in_mats, files,
          lastOp, raised, loadCalls, loadPrev, loadedData, resolved, invoked, readElems,
          fed, predicted, passed, deltas, envelope, weights, outPos, skin, outdir,
          freed>>

----------------------------------------------------------------------------
(* Bounds of the model. *)

\* Number of vertices of the deformed mesh (meshFn.numVertices()).
NumVertices == 3

\* Largest number of elements the host puts in the matrix array attribute.
MaxMatrices == 3

Verts == 0 .. (NumVertices - 1)

----------------------------------------------------------------------------
(* Python values. *)

\* Python's None where a string is expected (self.data_location = None).
NONE == "<None>"

\* Python's None where a record or an array is expected.
None == [kind |-> "None"]

\* A JSON list of numbers, and numpy.array of it.
List(s) == [kind |-> "list", v |-> s]
np_array(l) == [kind |-> "ndarray", v |-> l.v]

----------------------------------------------------------------------------
(* Floating-point results of a division: a finite ratio n/d in lowest       *)
(* terms, NaN, +Inf, -Inf, or the largest finite double (n = 1) and its     *)
(* negation (n = -1), which numpy.nan_to_num puts in the place of an        *)
(* infinity.                                                                *)

RECURSIVE Gcd(_, _)
Gcd(a, b) == IF b = 0 THEN a ELSE Gcd(b, a % b)

Abs(x) == IF x < 0 THEN -x ELSE x

Fin(n, d) ==
    LET g == Gcd(Abs(n), Abs(d))
        s == IF d < 0 THEN -1 ELSE 1
    IN  [k |-> "fin", n |-> s * (n \div g), d |-> s * (d \div g)]

NaN == [k |-> "nan", n |-> 0, d |-> 0]
PInf == [k |-> "inf", n |-> 1, d |-> 0]
NInf == [k |-> "inf", n |-> -1, d |-> 0]
FloatMax == [k |-> "max", n |-> 1, d |-> 1]
FloatMin == [k |-> "max", n |-> -1, d |-> 1]

\* a / b on doubles holding the integers a and b (numpy: no exception on b = 0).
FDiv(a, b) ==
    IF b # 0 THEN Fin(a, b)
    ELSE IF a = 0 THEN NaN
    ELSE IF a > 0 THEN PInf
    ELSE NInf

\* numpy.nan_to_num on one element: NaN -> 0, +Inf / -Inf -> largest / smallest double.
nan_to_num(x) ==
    IF x.k = "nan" THEN Fin(0, 1)
    ELSE IF x.k = "inf" THEN (IF x.n > 0 THEN FloatMax ELSE FloatMin)
    ELSE x

----------------------------------------------------------------------------
(* The manifest documents and the file system.                              *)

\* Meta-graph files tf.train.import_meta_graph can import; any other path
\* makes it raise.
MetaGraphs == {"netA.meta", "netB.meta"}

\* A models entry of the manifest (ModelSlot); null entries are None.
Slot(root, normalized, tmax, tmin, vmax, vmin) ==
    [kind |-> "slot", root |-> root, meta |-> root \o ".meta",
     input |-> "input_node_input:0", output |-> "output_node/BiasAdd:0",
     normalized |-> normalized,
     trans_max |-> tmax, trans_min |-> tmin,
     verts_max |-> vmax, verts_min |-> vmin]

\* train.py writes null bounds when it did not normalize.
PlainSlot(root) == Slot(root, FALSE, None, None, None, None)

\* A parsed JSON document; hasModels is "'models' in data".
Doc(hasModels, ms, jm) ==
    [kind |-> "json", hasModels |-> hasModels, models |-> ms, joint_map |-> jm]

\* No file at the path.
Absent == [kind |-> "absent"]

\* output of write() on which train() appended no model at all.
NoModelsDoc == Doc(FALSE, <<>>, <<<<0, 1>>, <<>>>>)

\* Two joints, the second without a model.
TwoSlotDoc == Doc(TRUE, <<PlainSlot("netA"), None>>, <<<<0, 1>>, <<>>>>)

\* Three joints, the middle one without a model; joints 0 and 2 both list
\* vertex 1.  Joint 0 was switched to not normalized with its bounds left in
\* the document; joint 2 is normalized, with a zero-width translation axis.
ThreeSlotDoc ==
    Doc(TRUE,
        <<Slot("netA", FALSE, List(<<2, 2, 2>>), List(<<0, 0, 0>>),
               List(<<1, 1, 1, 1, 1, 1>>), List(<<0, 0, 0, 0, 0, 0>>)),
          None,
          Slot("netB", TRUE, List(<<2, 4, 1>>), List(<<-1, 0, 1>>),
               List(<<3, 3, 3, 2, 2, 2>>), List(<<1, 1, 1, 0, 0, 0>>))>>,
        <<<<0, 1>>, <<>>, <<1, 2>>>>)

\* Three joints; the artifact of joint 1 is missing on disk.
BrokenSlotDoc ==
    Doc(TRUE, <<PlainSlot("netA"), PlainSlot("gone"), PlainSlot("netB")>>,
        <<<<0>>, <<1>>, <<2>>>>)

\* What the environment may put at a path.
Documents == {Absent, NoModelsDoc, TwoSlotDoc, ThreeSlotDoc, BrokenSlotDoc}

\* Paths the trainingData attribute can hold.
Paths == {"a.json", "b.json"}

\* os.path.exists(path)
PathExists(fs, path) == fs[path].kind # "absent"

----------------------------------------------------------------------------
(* loadModels (deformer.py 210-267).  The node's two cache fields are       *)
(* threaded through as a record self = [data_location, models]; the result  *)
(* adds the exception that escaped ("none" on return), the slot indices     *)
(* whose artifact was resolved, and the document that was parsed.           *)

LoadResult(self, exc, res, data) ==
    [data_location |-> self.data_location, models |-> self.models,
     raised |-> exc, resolved |-> res, data |-> data]

\* A variant that forgets to empty the list.
ResetCache_keepModels(self, path) == [data_location |-> NONE, models |-> self.models]

\* Lines 213-214: the cache fields are reset on entry.
ResetCache(self, path) == [data_location |-> NONE, models |-> <<>>]

\* Line 216: the cached-path test, evaluated on the node as it is then.
SamePath(self, path) == path = self.data_location

\* A variant that reads the bounds whatever the normalized flag says.
ResolveSlot_alwaysBounds(slot, vertices) ==
    [kind |-> "TFModel",
     graph |-> slot.meta, session |-> slot.root,
     input_tensor |-> slot.input, output_tensor |-> slot.output,
     vertices |-> vertices,
     normalized |-> slot.normalized,
     trans_max |-> IF slot.trans_max # None THEN np_array(slot.trans_max) ELSE None,
     trans_min |-> IF slot.trans_min # None THEN np_array(slot.trans_min) ELSE None,
     verts_max |-> IF slot.verts_max # None THEN np_array(slot.verts_max) ELSE None,
     verts_min |-> IF slot.verts_min # None THEN np_array(slot.verts_min) ELSE None]

\* Lines 236-265: resolve one non-null slot into a TFModel.
ResolveSlot(slot, vertices) ==
    [kind |-> "TFModel",
     graph |-> slot.meta, session |-> slot.root,
     input_tensor |-> slot.input, output_tensor |-> slot.output,
     vertices |-> vertices,
     normalized |-> slot.normalized,
     trans_max |-> IF slot.normalized THEN np_array(slot.trans_max) ELSE None,
     trans_min |-> IF slot.normalized THEN np_array(slot.trans_min) ELSE None,
     verts_max |-> IF slot.normalized THEN np_array(slot.verts_max) ELSE None,
     verts_min |-> IF slot.normalized THEN np_array(slot.verts_min) ELSE None]

\* Line 232: "if not model".
SlotIsEmpty(slot) == slot = None

\* Lines 231-267: the loop over data['models'], from slot i on.  self.models is
\* appended to in place, so an exception leaves what was appended so far.
RECURSIVE LoadSlots(_, _, _, _)
LoadSlots(self, data, i, res) ==
    IF i >= Len(data.models) THEN LoadResult(self, "none", res, data)
    ELSE LET slot == data.models[i + 1] IN
         IF SlotIsEmpty(slot)
         THEN LoadSlots([self EXCEPT !.models = Append(@, None)], data, i + 1, res)
         ELSE IF slot.meta \notin MetaGraphs
         THEN LoadResult(self, "IOError", res, data)
         ELSE LoadSlots([self EXCEPT !.models =
                             Append(@, ResolveSlot(slot, data.joint_map[i + 1]))],
                        data, i + 1, res \cup {i})

\* Lines 219-222: a missing file is logged and the function goes on; the
\* path is cached, and the open() of line 223 then raises.
MissingFile(self, path) ==
    LoadResult([self EXCEPT !.data_location = path], "IOError", {}, None)

\* Lines 226-228: a document without 'models' is logged and the function returns.
NoModelsKey(self, data) == LoadResult(self, "none", {}, data)

loadModels(self0, fs, path) ==
    LET self1 == ResetCache(self0, path) IN
    IF SamePath(self1, path) THEN LoadResult(self1, "none", {}, None)
    ELSE IF ~PathExists(fs, path) THEN MissingFile(self1, path)
    ELSE LET self2 == [self1 EXCEPT !.data_location = path]
             data == fs[path]
         IN  IF ~data.hasModels THEN NoModelsKey(self2, data)
             ELSE LoadSlots(self2, data, 0, {})

----------------------------------------------------------------------------
(* The host's inputs to an evaluation.                                      *)

\* A joint transform as deform decomposes its matrix (lines 150-156): the
\* rotation as a unit quaternion and the world translation.
Transform(qx, qy, qz, qw, tx, ty, tz) ==
    [rotation |-> [x |-> qx, y |-> qy, z |-> qz, w |-> qw],
     translate |-> [x |-> tx, y |-> ty, z |-> tz]]

Identity == Transform(0, 0, 0, 1, 0, 0, 0)

\* The identity and a half turn about x placed at (1, 2, 1).
Transforms == {Identity, Transform(1, 0, 0, 0, 1, 2, 1)}

\* Values of the envelope attribute (the engine does not clamp it).
Envelopes == {0, 1, 2}

\* Paint weights: all one, or vertex 0 masked out.
WeightMaps ==
    {[v \in Verts |-> 1], [v \in Verts |-> IF v = 0 THEN 0 ELSE 1]}

\* Vertex positions of the input geometry.
inputGeom == [v \in Verts |-> <<v, 0, 1 - v>>]

----------------------------------------------------------------------------
(* Normalization (deformer.py 82-109).                                      *)

\* A variant that puts the translation first.
TransformValues_translationFirst(t) ==
    <<Fin(t.translate.x, 1), Fin(t.translate.y, 1), Fin(t.translate.z, 1),
      Fin(t.rotation.x, 1), Fin(t.rotation.y, 1), Fin(t.rotation.z, 1),
      Fin(t.rotation.w, 1)>>

\* Lines 157-158: the 7 values as doubles, rotation then translation.
TransformValues(t) ==
    <<Fin(t.rotation.x, 1), Fin(t.rotation.y, 1), Fin(t.rotation.z, 1),
      Fin(t.rotation.w, 1),
      Fin(t.translate.x, 1), Fin(t.translate.y, 1), Fin(t.translate.z, 1)>>

\* Lines 88-96: the last three elements are rescaled, the rest kept.
normalize_transform(array, model) ==
    LET t_max == model.trans_max.v
        t_min == model.trans_min.v
    IN  [i \in 1 .. 7 |->
            IF i <= 4 THEN array[i]
            ELSE nan_to_num(FDiv(array[i].n - t_min[i - 4] * array[i].d,
                                 (t_max[i - 4] - t_min[i - 4]) * array[i].d))]

\* Lines 94-96: the result is written into the caller's array (array[-3:] =
\* trans) and that same array is returned; this is what the caller's array
\* holds after the call.
ArrayAfterNormalize(array, model) == normalize_transform(array, model)

\* Lines 107-109: prediction is rebound to new arrays; the caller's array is
\* not written.
ArrayAfterDenormalize(prediction, model) == prediction

\* Lines 104-109.  Predictions and bounds are finite, so their products and
\* sums are, and nan_to_num returns them as they are.
denormalize_prediction(prediction, model) ==
    LET v_max == model.verts_max.v
        v_min == model.verts_min.v
    IN  [j \in 1 .. Len(prediction) |->
            (prediction[j] * (v_max[j] - v_min[j])) + v_min[j]]

----------------------------------------------------------------------------
(* The inference graph (deformer.py 168-173).  The trained network is an    *)
(* artifact on disk; what matters to the node is that session.run is a      *)
(* deterministic function of the session and the row fed, with 3 outputs    *)
(* per vertex.  The stand-in below differs per session, per output and per  *)
(* translation value, and is never zero.                                    *)

InputCode(x) ==
    IF x.k = "fin" THEN x.n + x.d - 1 ELSE 7 * x.n

SessionGain(session) == IF session = "netA" THEN 1 ELSE 10

session_run(model, array) ==
    [j \in 1 .. 3 * Len(model.vertices) |->
        SessionGain(model.session) * j
        + InputCode(array[5]) + InputCode(array[6]) + InputCode(array[7])]

----------------------------------------------------------------------------
(* deform (deformer.py 111-196).                                            *)

\* f with f[i] set to x (i added to the domain when new).
Put(f, i, x) == [j \in (DOMAIN f) \cup {i} |-> IF j = i THEN x ELSE f[j]]

\* Line 132: np.zeros(3 * numVertices).
ZeroDeltas == [j \in 1 .. 3 * NumVertices |-> 0]

\* Released memory: its contents are not followed, or it is a block holding
\* the values v (no values before the first evaluation).
NotFollowed == [kind |-> "not followed"]
Block(values) == [kind |-> "block", v |-> values]

\* A variant that allocates without zeroing and gets back the block an earlier
\* evaluation released.
NewDeltas_uninitialized(released) ==
    IF released = NotFollowed \/ released = Block(<<>>)
    THEN ZeroDeltas
    ELSE released.v

\* Line 132: deltas is a local of deform, allocated zeroed on every call,
\* whatever the memory held before.
NewDeltas(released) == ZeroDeltas

\* A variant that accumulates (+=) instead of assigning.
WriteTriple_accumulate(buf, vtx, prediction, index) ==
    [j \in DOMAIN buf |->
        IF j > 3 * vtx /\ j <= 3 * vtx + 3
        THEN buf[j] + prediction[3 * index + (j - 3 * vtx)]
        ELSE buf[j]]

\* A variant that takes the first triple of the prediction for every vertex.
WriteTriple_firstTriple(buf, vtx, prediction, index) ==
    [j \in DOMAIN buf |->
        IF j > 3 * vtx /\ j <= 3 * vtx + 3
        THEN prediction[j - 3 * vtx]
        ELSE buf[j]]

\* Line 181: deltas[vtx*3 : vtx*3 + 3] = prediction[index*3 : index*3 + 3].
WriteTriple(buf, vtx, prediction, index) ==
    [j \in DOMAIN buf |->
        IF j > 3 * vtx /\ j <= 3 * vtx + 3
        THEN prediction[3 * index + (j - 3 * vtx)]
        ELSE buf[j]]

\* Lines 180-181: the scatter loop, from list position index on.
RECURSIVE Scatter(_, _, _, _)
Scatter(buf, vertices, prediction, index) ==
    IF index >= Len(vertices) THEN buf
    ELSE Scatter(WriteTriple(buf, vertices[index + 1], prediction, index),
                 vertices, prediction, index + 1)

\* A variant with the bound test off by one.
SkipSlot_offByOne(ms, i) == i >= Len(ms) - 1 \/ ms[i + 1] = None

\* Lines 136-142: the slot is skipped.
SkipSlot(ms, i) == i >= Len(ms) \/ ms[i + 1] = None

\* Lines 145-181: one bound slot: read the transform, normalize, run,
\* denormalize, scatter.
RunSlot(acc, ms, mats, i) ==
    LET model == ms[i + 1]
        values == TransformValues(mats[i + 1])
        array == IF model.normalized THEN normalize_transform(values, model)
                 ELSE values
        results == session_run(model, array)
        prediction == IF model.normalized
                      THEN denormalize_prediction(results, model)
                      ELSE results
    IN  [deltas |-> Scatter(acc.deltas, model.vertices, prediction, 0),
         invoked |-> acc.invoked \cup {i},
         readElems |-> acc.readElems \cup {i},
         fed |-> Put(acc.fed, i, array),
         predicted |-> Put(acc.predicted, i, results),
         passed |-> IF model.normalized
                    THEN Put(acc.passed, i,
                             [values |-> ArrayAfterNormalize(values, model),
                              prediction |-> ArrayAfterDenormalize(results, model)])
                    ELSE acc.passed]

\* A variant that loops over range(numModels) and takes the identity for a
\* transform the host did not supply.
RECURSIVE Dispatch_overModels(_, _, _, _)
Dispatch_overModels(acc, ms, mats, i) ==
    IF i >= Len(ms) THEN acc
    ELSE IF SkipSlot(ms, i) THEN Dispatch_overModels(acc, ms, mats, i + 1)
    ELSE Dispatch_overModels(
             RunSlot(acc, ms,
                     [j \in 1 .. Len(ms) |->
                         IF j <= Len(mats) THEN mats[j] ELSE Identity],
                     i),
             ms, mats, i + 1)

\* Lines 134-181: the loop over range(matricesCount), from i on.
RECURSIVE Dispatch(_, _, _, _)
Dispatch(acc, ms, mats, i) ==
    IF i >= Len(mats) THEN acc
    ELSE IF SkipSlot(ms, i) THEN Dispatch(acc, ms, mats, i + 1)
    ELSE Dispatch(RunSlot(acc, ms, mats, i), ms, mats, i + 1)

NoDispatch ==
    [deltas |-> <<>>, invoked |-> {}, readElems |-> {}, fed |-> <<>>,
     predicted |-> <<>>, passed |-> <<>>]

\* A variant that clamps the envelope to 0..1.
Blend_clamped(buf, env, w) ==
    [v \in Verts |->
        [c \in 1 .. 3 |->
            inputGeom[v][c] + buf[3 * v + c] * (IF env > 1 THEN 1 ELSE env) * w[v]]]

\* Lines 184-196: the iterator visits every vertex of the mesh.
Blend(buf, env, w) ==
    [v \in Verts |->
        [c \in 1 .. 3 |-> inputGeom[v][c] + buf[3 * v + c] * env * w[v]]]

\* A variant that leaves the flag set.
FlagAfterCheck_keep(flag) == flag

\* Lines 113-117: the flag is cleared, then loadModels runs.
FlagAfterCheck(flag) == FALSE

\* Lines 112-181: the reload check and the dispatcher loop.  An exception
\* out of loadModels leaves deform at line 117: no delta buffer exists.
deform(self, prevData, flag, fs, loc, mats, released) ==
    LET ld == IF flag THEN loadModels(self, fs, loc)
              ELSE LoadResult(self, "none", {}, prevData)
    IN  [data_location |-> ld.data_location,
         loadedData |-> ld.data,
         models |-> ld.models,
         location_changed |-> IF flag THEN FlagAfterCheck(flag) ELSE flag,
         raised |-> ld.raised,
         loadCalls |-> IF flag THEN 1 ELSE 0,
         resolved |-> ld.resolved,
         dispatch |-> IF ld.raised = "none"
                      THEN Dispatch([NoDispatch EXCEPT !.deltas = NewDeltas(released)],
                                    ld.models, mats, 0)
                      ELSE NoDispatch]

\* Lines 183-196, reached only when nothing was raised before them.
SetPositions(r, env, w) ==
    IF r.raised = "none" THEN Blend(r.dispatch.deltas, env, w) ELSE inputGeom

----------------------------------------------------------------------------
(* The authoring tools: skinning.get_joints / skin_mesh, writer.write and    *)
(* train.train.  Names and paths are sequences of characters.               *)

\* Full DAG paths of the joints of the scene: |a, its child |a|b, and |ab
\* and |a_b beside |a.
JointNames ==
    {<<"|", "a">>, <<"|", "a", "|", "b">>, <<"|", "a", "b">>, <<"|", "a", "_", "b">>}

\* How many joints a call of skin_mesh names.
RequestLengths == {1, 2}

\* mc.ls(joints, type='joint', l=True): lists of distinct full paths.
Requests ==
    {q \in UNION {[1 .. n -> JointNames] : n \in RequestLengths} :
        \A k, l \in DOMAIN q : k # l => q[k] # q[l]}

\* Frame numbers write() is given as start and end.
Frames == 1 .. 3

\* Weights the skin cluster holds.
WeightValues == {0, 1}

\* str.startswith.
startswith(str, prefix) ==
    Len(prefix) <= Len(str) /\ SubSeq(str, 1, Len(prefix)) = prefix

\* skinning.py 98-105: a joint is kept when the inner loop ends without break.
IsRoot(joint, joints) ==
    \A k \in DOMAIN joints :
        joints[k] = joint \/ ~startswith(joint, joints[k])

\* skinning.py 85-107, on the list mc.ls returned.
get_joints(joints) == SelectSeq(joints, LAMBDA joint : IsRoot(joint, joints))

\* skinning.py 110-123: the skin cluster's influences are get_joints' result.
skin_mesh(joints, bound) ==
    [requested |-> joints, influences |-> get_joints(joints), weights |-> bound]

\* writer.py 82: weights[vtx * stride : vtx * stride + stride].
VtxWeights(ws, vtx, stride) == SubSeq(ws, vtx * stride + 1, vtx * stride + stride)

\* A variant of the inner loop without the break.
FirstPositive_noBreak(vtx_weights) ==
    {i - 1 : i \in {k \in DOMAIN vtx_weights : vtx_weights[k] > 0}}

\* writer.py 83-87: the index of the first weight > 0, after which the loop
\* breaks; no index when there is none.
FirstPositive(vtx_weights) ==
    LET pos == {k \in DOMAIN vtx_weights : vtx_weights[k] > 0}
    IN  IF pos = {} THEN {}
        ELSE {(CHOOSE k \in pos : \A l \in pos : k <= l) - 1}

\* writer.py 76-87: joint_map, one list per influence index, vertices in
\* increasing order.
JointMap(ws, stride) ==
    [i \in 1 .. stride |->
        SelectSeq([v \in 1 .. NumVertices |-> v - 1],
                  LAMBDA vtx : (i - 1) \in FirstPositive(VtxWeights(ws, vtx, stride)))]

\* writer.py 122-124: '%s.csv' % joint.replace('|', '_'), less a leading '_'.
CsvName(joint) ==
    LET replaced == [k \in DOMAIN joint |-> IF joint[k] = "|" THEN "_" ELSE joint[k]]
        filename == replaced \o <<".csv">>
    IN  IF filename[1] = "_" THEN Tail(filename) ELSE filename

\* The pose a joint has at a frame: it moves every second frame.
JointPose(frame) == frame \div 2

\* writer.py 95-116: one row per frame of range(start, end + 1).
FrameRows(start, end) ==
    [k \in 1 .. (IF end >= start THEN end - start + 1 ELSE 0) |->
        JointPose(start + k - 1)]

\* writer.py 119-135: the file written for the joint at index jidx.
CsvFile(joints, jm, jidx, start, end) ==
    [kind |-> "csv", joint |-> joints[jidx], verts |-> jm[jidx],
     rows |-> FrameRows(start, end)]

\* The directory before anything is written.
EmptyDir ==
    [csv |-> [f \in {CsvName(j) : j \in JointNames} |-> Absent],
     nets |-> [f \in {CsvName(j) : j \in JointNames} |-> Absent],
     input_data |-> None, output_data |-> None]

\* writer.py 119-137: the files are written in joint order, a later one
\* replacing an earlier one of the same name.
RECURSIVE WriteCsvFiles(_, _, _, _, _, _)
WriteCsvFiles(csv, joints, jm, jidx, start, end) ==
    IF jidx > Len(joints) THEN csv
    ELSE WriteCsvFiles([csv EXCEPT ![CsvName(joints[jidx])] =
                            CsvFile(joints, jm, jidx, start, end)],
                       joints, jm, jidx + 1, start, end)

\* writer.py 24-154.
write(dir, sk, start, end) ==
    LET joints == sk.influences
        stride == Len(joints)
        jm == JointMap(sk.weights, stride)
    IN  [dir EXCEPT
            !.csv = WriteCsvFiles(dir.csv, joints, jm, 1, start, end),
            !.input_data = [kind |-> "json",
                            joint_names |-> joints,
                            csv_files |-> [k \in 1 .. stride |-> CsvName(joints[k])],
                            joint_map |-> jm]]

\* train.py 133: os.path.splitext(os.path.basename(csv_file))[0].
FileName(csv_file) == SubSeq(csv_file, 1, Len(csv_file) - 1)

\* train.py 141: df.drop_duplicates(joint_columns) keeps the first row of
\* every pose.
drop_duplicates(rows) ==
    SelectSeq([k \in DOMAIN rows |-> [at |-> k, pose |-> rows[k]]],
              LAMBDA r : \A l \in 1 .. (r.at - 1) : rows[l] # r.pose)

\* train.py 142: not df.shape[0] or df.shape[1] <= len(joint_columns).
NothingToTrain(df) == Len(drop_duplicates(df.rows)) = 0 \/ Len(df.verts) = 0

\* train.py 194-205: model_data.
ModelData(file_name, normalize) ==
    [kind |-> "model", root |-> file_name, meta |-> file_name \o <<".meta">>,
     normalized |-> normalize,
     bounds |-> IF normalize THEN [kind |-> "bounds", of |-> file_name] ELSE None]

\* train.py 131-208: one pass per entry of csv_files; the network is trained
\* on the columns of the file read and saved under the file's name.
RECURSIVE TrainLoop(_, _, _, _)
TrainLoop(acc, csv_files, i, normalize) ==
    IF i > Len(csv_files) THEN acc
    ELSE LET file_name == FileName(csv_files[i])
             df == acc.csv[csv_files[i]]
         IN  IF NothingToTrain(df)
             THEN TrainLoop([acc EXCEPT !.models = Append(@, None)],
                            csv_files, i + 1, normalize)
             ELSE TrainLoop([acc EXCEPT
                                !.models = Append(@, ModelData(file_name, normalize)),
                                !.nets[csv_files[i]] =
                                    [kind |-> "net", joint |-> df.joint,
                                     outputs |-> df.verts]],
                            csv_files, i + 1, normalize)

\* train.py 105-215: input_data.json plus the models, as output_data.json.
train(dir, normalize) ==
    LET input_data == dir.input_data
        done == TrainLoop([csv |-> dir.csv, nets |-> dir.nets, models |-> <<>>],
                          input_data.csv_files, 1, normalize)
    IN  [dir EXCEPT
            !.nets = done.nets,
            !.output_data = [kind |-> "json",
                             joint_names |-> input_data.joint_names,
                             csv_files |-> input_data.csv_files,
                             joint_map |-> input_data.joint_map,
                             hasModels |-> input_data.csv_files # <<>>,
                             models |-> done.models]]

----------------------------------------------------------------------------
(* The state machine.                                                       *)

\* Line 132: the buffer is a local of deform, released when deform returns.
Released ==
    IF freed = NotFollowed \/ deltas = <<>> THEN freed ELSE Block(deltas)

\* What the observation variables hold when the last handler was not deform.
Idle(op) ==
    /\ lastOp' = op
    /\ freed' = Released
    /\ UNCHANGED <<skin, outdir>>
    /\ raised' = "none"
    /\ loadCalls' = 0
    /\ loadPrev' = [data_location |-> data_location', models |-> models']
    /\ UNCHANGED loadedData
    /\ resolved' = {}
    /\ invoked' = {}
    /\ readElems' = {}
    /\ fed' = <<>>
    /\ predicted' = <<>>
    /\ passed' = <<>>
    /\ deltas' = <<>>
    /\ envelope' = 0
    /\ weights' = [v \in Verts |-> 0]
    /\ outPos' = inputGeom

\* __init__ (lines 35-39); the attributes start empty, no file is on disk.
Constructed ==
    /\ data_location = NONE
    /\ location_changed = TRUE
    /\ models = <<>>
    /\ trainingData \in Paths
    /\ in_mats = <<>>
    /\ files = [p \in Paths |-> Absent]
    /\ lastOp = "init"
    /\ raised = "none"
    /\ loadCalls = 0
    /\ loadPrev = [data_location |-> NONE, models |-> <<>>]
    /\ loadedData = None
    /\ resolved = {}
    /\ invoked = {}
    /\ readElems = {}
    /\ fed = <<>>
    /\ predicted = <<>>
    /\ passed = <<>>
    /\ deltas = <<>>
    /\ envelope = 0
    /\ weights = [v \in Verts |-> 0]
    /\ outPos = inputGeom
    /\ skin = None
    /\ outdir = EmptyDir

Init == Constructed /\ freed = NotFollowed

\* Line 206: plug == data_loc.
PlugIsDataLoc(plug) == plug = "trainingData"

\* setDependentsDirty (lines 204-208): the host set the trainingData plug,
\* possibly to the value it already had.
SetTrainingData ==
    \E p \in Paths :
        /\ trainingData' = p
        /\ location_changed' = (PlugIsDataLoc("trainingData") \/ location_changed)
        /\ UNCHANGED <<data_location, models, in_mats, files>>
        /\ Idle("setTrainingData")

\* setDependentsDirty (lines 204-208): the host connected a joint to the next
\* element of the matrix plug, or disconnected the last one.
SetMatrix ==
    \E ms \in {Append(in_mats, t) : t \in Transforms}
              \cup {SubSeq(in_mats, 1, Len(in_mats) - 1)} :
        /\ ms # in_mats
        /\ Len(ms) <= MaxMatrices
        /\ in_mats' = ms
        /\ location_changed' = (PlugIsDataLoc("matrix") \/ location_changed)
        /\ UNCHANGED <<data_location, models, trainingData, files>>
        /\ Idle("setMatrix")

\* preEvaluation (lines 198-202): the evaluation manager reports whether the
\* trainingData plug is dirty.
PreEvaluation ==
    \E dirty \in BOOLEAN :
        /\ location_changed' = (dirty \/ location_changed)
        /\ UNCHANGED <<data_location, models, trainingData, in_mats, files>>
        /\ Idle(IF dirty THEN "preEvaluationDirty" ELSE "preEvaluation")

\* The environment writes, replaces or deletes a manifest file.
WriteFile ==
    \E p \in Paths, doc \in Documents :
        /\ files[p] # doc
        /\ files' = [files EXCEPT ![p] = doc]
        /\ UNCHANGED <<data_location, location_changed, models, trainingData, in_mats>>
        /\ Idle("writeFile")

\* One evaluation of the node: deform, with the envelope and the paint
\* weights the data block holds at that time.
Deform ==
    LET self == [data_location |-> data_location, models |-> models] IN
    \E r \in {deform(self, loadedData, location_changed, files, trainingData, in_mats,
                       Released)} :
        \E env \in Envelopes, w \in WeightMaps :
            /\ data_location' = r.data_location
            /\ models' = r.models
            /\ location_changed' = r.location_changed
            /\ lastOp' = "deform"
            /\ raised' = r.raised
            /\ loadCalls' = r.loadCalls
            /\ loadPrev' = self
            /\ loadedData' = r.loadedData
            /\ resolved' = r.resolved
            /\ invoked' = r.dispatch.invoked
            /\ readElems' = r.dispatch.readElems
            /\ fed' = r.dispatch.fed
            /\ predicted' = r.dispatch.predicted
            /\ passed' = r.dispatch.passed
            /\ deltas' = r.dispatch.deltas
            /\ envelope' = env
            /\ weights' = w
            /\ outPos' = SetPositions(r, env, w)
            /\ freed' = Released
            /\ UNCHANGED <<trainingData, in_mats, files, skin, outdir>>

Next == SetTrainingData \/ SetMatrix \/ PreEvaluation \/ WriteFile \/ Deform

Spec == Init /\ [][Next]_vars

\* The node is not evaluated while the authoring tools run.
nodeVars == <<data_location, location_changed, models, trainingData, in_mats, files,
              lastOp, raised, loadCalls, loadPrev, loadedData, resolved, invoked,
              readElems, fed, predicted, passed, deltas, envelope, weights, outPos,
              freed>>

\* skin_mesh (skinning.py 110-123) on a mesh that has no skin cluster yet,
\* and the weights the bind and the painting left on it.
SkinMesh ==
    \E joints \in Requests :
        \E bound \in [1 .. NumVertices * Len(get_joints(joints)) -> WeightValues] :
            /\ skin = None
            /\ skin' = skin_mesh(joints, bound)
            /\ UNCHANGED outdir
            /\ UNCHANGED nodeVars

\* writer.write into a directory that holds no export yet.
Write ==
    \E start \in Frames, end \in Frames :
        /\ skin # None
        /\ outdir.input_data = None
        /\ outdir' = write(outdir, skin, start, end)
        /\ UNCHANGED skin
        /\ UNCHANGED nodeVars

\* train.train on the directory write() filled.
Train ==
    \E normalize \in BOOLEAN :
        /\ outdir.input_data # None
        /\ outdir.output_data = None
        /\ outdir' = train(outdir, normalize)
        /\ UNCHANGED skin
        /\ UNCHANGED nodeVars

NextTools == SkinMesh \/ Write \/ Train

SpecTools == Init /\ [][NextTools]_vars

\* Sequences of evaluations of a node that keeps one manifest path, with the
\* memory of the released delta buffer followed.
InitReuse == Constructed /\ trainingData = "a.json" /\ freed = Block(<<>>)

OneManifest(A) == A /\ trainingData' = "a.json" /\ files'["b.json"] = Absent

NextReuse ==
    \/ OneManifest(SetTrainingData)
    \/ OneManifest(SetMatrix)
    \/ OneManifest(PreEvaluation)
    \/ OneManifest(WriteFile)
    \/ OneManifest(Deform)

SpecReuse == InitReuse /\ [][NextReuse]_vars

----------------------------------------------------------------------------
(* Shorthands for the properties.                                           *)

\* The last handler was an evaluation, and it called loadModels.
Loaded == lastOp = "deform" /\ loadCalls = 1

\* The last handler was an evaluation that got to the dispatcher loop.
Dispatched == lastOp = "deform" /\ raised = "none"

\* The document at the manifest path (deform leaves both as they were).
ManifestDoc == files[trainingData]

ManifestMissing == ManifestDoc.kind = "absent"
ManifestWithoutModels == ManifestDoc.kind = "json" /\ ~ManifestDoc.hasModels
ManifestWithModels == ManifestDoc.kind = "json" /\ ManifestDoc.hasModels

----------------------------------------------------------------------------
(* Load failures.                                                           *)

\* C1: an evaluation that loads a manifest path that does not exist returns
\* normally, with no model loaded and every vertex where it was.
C1_MissingManifestDoesNotRaise ==
    (Loaded /\ ManifestMissing) =>
        (raised = "none" /\ models = <<>> /\ outPos = inputGeom)

\* The load of the last evaluation failed: file missing, no 'models' key, or
\* an artifact that did not resolve.
LoadFailed == Loaded /\ (raised # "none" \/ ManifestMissing \/ ManifestWithoutModels)

\* C2: after a failed load the model list is empty and the flag is clear, and
\* an evaluation that starts with the flag clear does not call loadModels.
C2_FailedLoadLeavesEmptyClean ==
    [][ /\ LoadFailed' => (models' = <<>> /\ ~location_changed')
        /\ (~location_changed /\ lastOp' = "deform") => loadCalls' = 0 ]_vars

\* C3: loadModels with the path that is already cached changes neither the
\* cached path nor the model list, and resolves no artifact.
C3_SamePathIsNoOp ==
    (Loaded /\ trainingData = loadPrev.data_location) =>
        /\ data_location = loadPrev.data_location
        /\ models = loadPrev.models
        /\ resolved = {}

\* C4: the model list an inference pass works on is empty or has one entry
\* for each slot of the manifest it was loaded from.
C4_NeverPartiallyLoaded ==
    Dispatched =>
        \/ models = <<>>
        \/ /\ loadedData # None
           /\ loadedData.hasModels
           /\ Len(models) = Len(loadedData.models)

----------------------------------------------------------------------------
(* The reload flag.                                                         *)

\* The handlers by which the host signals a change of the manifest path.
PathSignals == {"setTrainingData", "preEvaluationDirty"}

\* C5: the flag is set on a new node; it rises only in a step in which the
\* host signals a change of the manifest path, and every such step leaves it
\* set; setting the matrix attribute leaves it as it was; an evaluation calls
\* loadModels once when the flag was set and not at all when it was clear, and
\* leaves the flag clear.
C5_ReloadFlagMachine ==
    /\ location_changed = TRUE
    /\ [][ /\ (~location_changed /\ location_changed') => lastOp' \in PathSignals
           /\ lastOp' \in PathSignals => location_changed'
           /\ lastOp' = "setMatrix" => location_changed' = location_changed
           /\ lastOp' = "deform" =>
                 /\ loadCalls' = (IF location_changed THEN 1 ELSE 0)
                 /\ ~location_changed' ]_vars

\* An evaluation that followed a change of the matrix array alone, and did
\* not reload.
C5_Witness ==
    /\ lastOp = "deform" /\ loadCalls = 0 /\ ~location_changed
    /\ in_mats # <<>> /\ models # <<>>

----------------------------------------------------------------------------
(* Successful and empty loads.                                              *)

\* C6: loading an existing manifest that has no 'models' key returns
\* normally and leaves no model loaded.
C6_NoModelsKeyEmptiesRegistry ==
    (Loaded /\ ManifestWithoutModels) => (raised = "none" /\ models = <<>>)

\* Such a load on a node that had models loaded.
C6_Witness ==
    Loaded /\ ManifestWithoutModels /\ loadPrev.models # <<>>

\* Entry m of the model list is what slot i of document data describes.
EntryMatchesSlot(m, data, i) ==
    LET slot == data.models[i + 1] IN
    IF slot = None THEN m = None
    ELSE /\ m # None
         /\ m.vertices = data.joint_map[i + 1]
         /\ m.normalized = slot.normalized
         /\ IF slot.normalized
            THEN /\ m.trans_max.kind = "ndarray" /\ m.trans_max.v = slot.trans_max.v
                 /\ m.trans_min.kind = "ndarray" /\ m.trans_min.v = slot.trans_min.v
                 /\ m.verts_max.kind = "ndarray" /\ m.verts_max.v = slot.verts_max.v
                 /\ m.verts_min.kind = "ndarray" /\ m.verts_min.v = slot.verts_min.v
            ELSE /\ m.trans_max = None /\ m.trans_min = None
                 /\ m.verts_max = None /\ m.verts_min = None

\* C7: after a load that returned normally from a manifest with N slots the
\* list has N entries, entry i is None exactly for a null slot i and
\* otherwise carries joint_map[i], the normalized flag and the bounds (None
\* when not normalized), and the cached path is the loaded path.
C7_SuccessfulLoadMirrorsManifest ==
    (Loaded /\ raised = "none" /\ ManifestWithModels) =>
        /\ Len(models) = Len(ManifestDoc.models)
        /\ \A i \in 0 .. (Len(models) - 1) :
               EntryMatchesSlot(models[i + 1], ManifestDoc, i)
        /\ data_location = trainingData

\* A 3-slot manifest loaded over a different, non-empty list.
C7_Witness ==
    /\ Loaded /\ raised = "none" /\ ManifestWithModels
    /\ Len(models) = 3 /\ models[2] = None /\ models[3].normalized
    /\ loadPrev.models # <<>> /\ loadPrev.models # models

----------------------------------------------------------------------------
(* The dispatcher.                                                          *)

\* C8: slot i is invoked exactly when i is below the number of transforms,
\* below the number of entries and entry i is not None; no matrix element
\* beyond the entries is read.
C8_InvokedIffBoundAndSupplied ==
    Dispatched =>
        /\ invoked = {i \in 0 .. (Len(in_mats) - 1) :
                         i < Len(models) /\ models[i + 1] # None}
        /\ \A i \in readElems : i < Len(models) /\ i < Len(in_mats)

\* More transforms than entries, one of them invoked.
C8_Witness ==
    Dispatched /\ Len(in_mats) > Len(models) /\ invoked # {}

\* Set of the elements of a sequence.
Range(q) == {q[j] : j \in DOMAIN q}

\* What slot i wrote: its prediction, denormalized when the slot is normalized.
Contribution(i) ==
    IF models[i + 1].normalized
    THEN denormalize_prediction(predicted[i], models[i + 1])
    ELSE predicted[i]

\* The triple of the delta buffer for vertex v.
DeltaTriple(v) == <<deltas[3 * v + 1], deltas[3 * v + 2], deltas[3 * v + 3]>>

\* The triple slot i predicted for vertex v (the last place v has in its list).
SlotTriple(i, v) ==
    LET vs == models[i + 1].vertices
        k == CHOOSE k \in 0 .. (Len(vs) - 1) :
                 vs[k + 1] = v /\ \A l \in 0 .. (Len(vs) - 1) : vs[l + 1] = v => l <= k
        c == Contribution(i)
    IN  <<c[3 * k + 1], c[3 * k + 2], c[3 * k + 3]>>

\* Vertices whose triple is not zero.
Touched == {v \in Verts : DeltaTriple(v) # <<0, 0, 0>>}

\* Three entries, the middle one None, and two transforms.
ThreeSlotsTwoTransforms ==
    /\ Dispatched
    /\ Len(models) = 3 /\ models[1] # None /\ models[2] = None /\ models[3] # None
    /\ Len(in_mats) = 2

\* C9 as stated: with three slots, slot 1 null, and two transforms, the delta
\* buffer holds the contributions of slots 0 and 2 and nothing else, and
\* element 2 of the matrix array is not read.
C9_Original ==
    ThreeSlotsTwoTransforms =>
        /\ Touched = Range(models[1].vertices) \cup Range(models[3].vertices)
        /\ \A v \in Range(models[3].vertices) : DeltaTriple(v) = SlotTriple(2, v)
        /\ 2 \notin readElems

\* C9, amended: with three slots, slot 1 null, and two transforms, only slot 0
\* is invoked; the delta buffer holds slot 0's prediction at slot 0's
\* vertices and zero elsewhere; elements 1 and 2 of the matrix array are not
\* read.
C9_OnlySlotZeroContributes ==
    ThreeSlotsTwoTransforms =>
        /\ invoked = {0}
        /\ \A v \in Verts :
               DeltaTriple(v) = IF v \in Range(models[1].vertices)
                                THEN SlotTriple(0, v) ELSE <<0, 0, 0>>
        /\ readElems = {0}

\* The case itself, with slot 2 owning a vertex that stays at zero.
C9_Witness ==
    /\ ThreeSlotsTwoTransforms
    /\ \E v \in Range(models[3].vertices) : DeltaTriple(v) = <<0, 0, 0>>
    /\ Touched # {}

\* Invoked slots that list vertex v.
Listing(v) == {i \in invoked : v \in Range(models[i + 1].vertices)}

\* C10: the triple of a vertex listed by invoked slots is exactly what the
\* highest of those slots predicted for it.
C10_HighestSlotWins ==
    Dispatched =>
        \A v \in Verts :
            Listing(v) # {} =>
                LET top == CHOOSE i \in Listing(v) : \A j \in Listing(v) : j <= i
                IN  DeltaTriple(v) = SlotTriple(top, v)

\* Two invoked slots list one vertex and predict different triples for it.
C10_Witness ==
    /\ Dispatched
    /\ \E v \in Verts :
           \E i, j \in Listing(v) :
               i < j /\ SlotTriple(i, v) # SlotTriple(j, v)
                     /\ DeltaTriple(v) = SlotTriple(j, v)

----------------------------------------------------------------------------
(* Scatter positions and blending.                                          *)

\* Position k of slot i's vertex list is the one whose triple stays in the
\* buffer: no later position of the list and no higher invoked slot names
\* the same vertex.
LastWriter(i, k) ==
    LET vs == models[i + 1].vertices IN
    /\ \A l \in (k + 1) .. (Len(vs) - 1) : vs[l + 1] # vs[k + 1]
    /\ \A j \in invoked : j > i => vs[k + 1] \notin Range(models[j + 1].vertices)

\* The offset the evaluation gave vertex v.
Offset(v) == [c \in 1 .. 3 |-> outPos[v][c] - inputGeom[v][c]]

\* A non-normalized slot 0 and a null slot 1, envelope 1, all weights 1.
PlainAndNullSlot ==
    /\ Dispatched
    /\ Len(models) = 2 /\ models[1] # None /\ models[2] = None
    /\ ~models[1].normalized
    /\ 0 \in invoked
    /\ envelope = 1 /\ \A v \in Verts : weights[v] = 1

\* C11: the k-th vertex of an invoked slot's list holds components 3k, 3k+1,
\* 3k+2 of that slot's prediction at 3v, 3v+1, 3v+2 of the delta buffer; with
\* a non-normalized slot 0, a null slot 1, envelope 1 and weights 1 every
\* vertex of slot 0 moves by its raw prediction triple and no other vertex
\* moves.
C11_PredictionConsumedPositionally ==
    /\ Dispatched =>
           \A i \in invoked :
               \A k \in 0 .. (Len(models[i + 1].vertices) - 1) :
                   LastWriter(i, k) =>
                       \A c \in 1 .. 3 :
                           deltas[3 * models[i + 1].vertices[k + 1] + c]
                               = Contribution(i)[3 * k + c]
    /\ PlainAndNullSlot =>
           /\ \A k \in 0 .. (Len(models[1].vertices) - 1) :
                  \A c \in 1 .. 3 :
                      Offset(models[1].vertices[k + 1])[c] = predicted[0][3 * k + c]
           /\ \A v \in Verts \ Range(models[1].vertices) :
                  \A c \in 1 .. 3 : Offset(v)[c] = 0
           /\ invoked = {0}

\* The scenario, with two transforms and slot 0 listing two vertices that get
\* different triples.
C11_Witness ==
    /\ PlainAndNullSlot
    /\ Len(in_mats) = 2
    /\ Len(models[1].vertices) = 2
    /\ \E c \in 1 .. 3 :
           Offset(models[1].vertices[1])[c] # Offset(models[1].vertices[2])[c]

\* C12: every vertex ends at its input position plus its delta triple times
\* envelope times paint weight, unclamped; it stays where it was when the
\* envelope or its paint weight is 0.
C12_BlendIsDeltaTimesEnvelopeTimesWeight ==
    Dispatched =>
        \A v \in Verts :
            /\ \A c \in 1 .. 3 :
                   outPos[v][c] = inputGeom[v][c]
                                  + deltas[3 * v + c] * envelope * weights[v]
            /\ (envelope = 0 \/ weights[v] = 0) =>
                   \A c \in 1 .. 3 : outPos[v][c] = inputGeom[v][c]

\* An envelope above 1 moved one vertex by twice its delta while a vertex with
\* a non-zero delta and paint weight 0 stayed.
C12_Witness ==
    /\ Dispatched /\ envelope = 2
    /\ \E v \in Verts :
           weights[v] = 1 /\ deltas[3 * v + 1] # 0
           /\ outPos[v][1] = inputGeom[v][1] + 2 * deltas[3 * v + 1]
    /\ \E v \in Verts :
           weights[v] = 0 /\ deltas[3 * v + 1] # 0 /\ outPos[v][1] = inputGeom[v][1]

\* C13: the delta buffer starts every evaluation at zero: a vertex that no
\* slot invoked in this evaluation lists has a zero delta triple and gets
\* offset zero, whatever the buffer of an earlier evaluation held for it.
C13_DeltasStartFromZero ==
    Dispatched =>
        \A v \in Verts :
            Listing(v) = {} =>
                /\ DeltaTriple(v) = <<0, 0, 0>>
                /\ Offset(v) = <<0, 0, 0>>

\* An earlier evaluation computed a non-zero delta for a vertex that no slot
\* of this evaluation lists; with envelope and paint weight non-zero the
\* vertex stays.
C13_Witness ==
    /\ Dispatched /\ freed # NotFollowed /\ freed # Block(<<>>) /\ envelope # 0
    /\ \E v \in Verts :
           /\ Listing(v) = {} /\ weights[v] # 0
           /\ freed.v[3 * v + 1] # 0
           /\ Offset(v) = <<0, 0, 0>>

----------------------------------------------------------------------------
(* Normalisation of the row fed to the network.                             *)

\* The quaternion and the translation of the transform slot i was given.
RotationOf(i) ==
    LET q == in_mats[i + 1].rotation IN <<q.x, q.y, q.z, q.w>>

TranslationOf(i) ==
    LET t == in_mats[i + 1].translate IN <<t.x, t.y, t.z>>

\* The invoked slots that carry bounds.
NormalizedSlots == {i \in invoked : models[i + 1].normalized}

\* Axis a (1..3) of slot i's translation bounds has zero width.
Degenerate(i, a) ==
    models[i + 1].trans_max.v[a] = models[i + 1].trans_min.v[a]

\* C14: on a translation axis with trans_max == trans_min, normalize_transform
\* produces 0 for every input translation value.
C14_DegenerateAxisGivesZero ==
    Dispatched =>
        \A i \in NormalizedSlots :
            \A a \in 1 .. 3 :
                Degenerate(i, a) => fed[i][4 + a] = Fin(0, 1)

\* C15: for non-degenerate bounds the row fed to the network keeps the
\* rotation in components 0-3 and holds (t - trans_min) / (trans_max -
\* trans_min) in components 4-6; the row is composed rotation first
\* (qx, qy, qz, qw, tx, ty, tz).
C15_NormalizeIsLinearOnTranslation ==
    Dispatched =>
        \A i \in invoked :
            /\ \A c \in 1 .. 4 : fed[i][c] = Fin(RotationOf(i)[c], 1)
            /\ ~models[i + 1].normalized =>
                   \A a \in 1 .. 3 : fed[i][4 + a] = Fin(TranslationOf(i)[a], 1)
            /\ models[i + 1].normalized =>
                   \A a \in 1 .. 3 :
                       ~Degenerate(i, a) =>
                           LET t_max == models[i + 1].trans_max.v[a]
                               t_min == models[i + 1].trans_min.v[a]
                               r == fed[i][4 + a]
                           IN  /\ r.k = "fin"
                               /\ r.n * (t_max - t_min)
                                      = (TranslationOf(i)[a] - t_min) * r.d

\* A slot with bounds (-1, 2) and (0, 4) was fed 2/3 and 1/2 for the
\* translation (1, 2, .) of a rotated joint.
C15_Witness ==
    /\ Dispatched
    /\ \E i \in NormalizedSlots :
           /\ RotationOf(i) = <<1, 0, 0, 0>>
           /\ TranslationOf(i)[1] = 1 /\ TranslationOf(i)[2] = 2
           /\ fed[i][5] = Fin(2, 3) /\ fed[i][6] = Fin(1, 2)

\* The row composed at lines 156-157 for slot i, before any call.
Composed(i) ==
    [c \in 1 .. 7 |->
        IF c <= 4 THEN Fin(RotationOf(i)[c], 1) ELSE Fin(TranslationOf(i)[c - 4], 1)]

\* C16: normalize_transform and denormalize_prediction leave the arrays they
\* are passed as they were: after the calls the transform row still holds the
\* composed values and the network's output still holds what session.run
\* returned.
C16_NormalizationLeavesInputs ==
    Dispatched =>
        \A i \in NormalizedSlots :
            /\ passed[i].values = Composed(i)
            /\ passed[i].prediction = predicted[i]

----------------------------------------------------------------------------
(* The authoring tools.                                                     *)

\* train() has written output_data.json.
Trained == outdir.output_data # None

\* write() has written input_data.json.
Written == outdir.input_data # None

\* The weight the skin cluster holds for vertex vtx and influence index i.
WeightOf(vtx, i) == skin.weights[vtx * Len(skin.influences) + i + 1]

\* The influence indices whose joint_map list names vertex vtx.
Owners(jm, vtx) == {i \in 0 .. (Len(jm) - 1) : vtx \in Range(jm[i + 1])}

\* joint ends with a path segment below other.
IsDescendant(joint, other) == startswith(joint, other \o <<"|">>)

\* C17: after write() and train() the manifest has as many models as
\* joint_map lists; models[i] is null exactly when joint i's CSV has no rows
\* after de-duplication or no vertex columns, and otherwise is a model of
\* joint i: the network saved for it was trained on joint i's rows and
\* predicts joint i's vertices.
C17_ModelsMatchJointMap ==
    Trained =>
        LET out == outdir.output_data IN
        /\ out.hasModels
        /\ Len(out.models) = Len(out.joint_map)
        /\ \A i \in 1 .. Len(out.models) :
               /\ out.models[i] = None <=>
                      \/ out.joint_map[i] = <<>>
                      \/ outdir.csv[out.csv_files[i]].rows = <<>>
               /\ out.models[i] # None =>
                      /\ outdir.nets[out.csv_files[i]].joint = out.joint_names[i]
                      /\ outdir.nets[out.csv_files[i]].outputs = out.joint_map[i]

\* C18: in the joint_map written by write() (and copied by train()) every
\* vertex is in at most one list and at most once; it is in the list of the
\* lowest influence index whose weight on it is > 0, and in no list when it
\* has no positive weight.
C18_JointMapListsAreDisjoint ==
    /\ Written =>
           LET jm == outdir.input_data.joint_map IN
           /\ Len(jm) = Len(skin.influences)
           /\ \A vtx \in Verts :
                  /\ Cardinality(Owners(jm, vtx)) <= 1
                  /\ \A i \in Owners(jm, vtx) :
                         /\ WeightOf(vtx, i) > 0
                         /\ \A k \in 0 .. (i - 1) : ~(WeightOf(vtx, k) > 0)
                         /\ Cardinality({n \in DOMAIN jm[i + 1] : jm[i + 1][n] = vtx}) = 1
                  /\ Owners(jm, vtx) = {} <=>
                         \A k \in 0 .. (Len(jm) - 1) : ~(WeightOf(vtx, k) > 0)
    /\ Trained => outdir.output_data.joint_map = outdir.input_data.joint_map

\* A vertex weighted to both of two influences is listed by the first only,
\* and a vertex without weight by none.
C18_Witness ==
    /\ Trained
    /\ Len(skin.influences) = 2
    /\ \E vtx \in Verts :
           /\ WeightOf(vtx, 0) > 0 /\ WeightOf(vtx, 1) > 0
           /\ Owners(outdir.output_data.joint_map, vtx) = {0}
    /\ \E vtx \in Verts :
           /\ WeightOf(vtx, 0) = 0 /\ WeightOf(vtx, 1) > 0
           /\ Owners(outdir.output_data.joint_map, vtx) = {1}
    /\ \E vtx \in Verts :
           /\ WeightOf(vtx, 0) = 0 /\ WeightOf(vtx, 1) = 0
           /\ Owners(outdir.output_data.joint_map, vtx) = {}

\* C19: get_joints keeps exactly the joints of the resolved list that are
\* not descendants of another joint of the list.
C19_GetJointsKeepsNonDescendants ==
    skin # None =>
        /\ \A joint \in Range(skin.requested) :
               joint \in Range(skin.influences) <=>
                   ~\E other \in Range(skin.requested) : IsDescendant(joint, other)
        /\ Range(skin.influences) \subseteq Range(skin.requested)

====
